---- MODULE Spec2Model ----
(***************************************************************************)
(* Model of combined_dashboard.py: the Flask page (index) and the          *)
(* Streamlit page (tab loop), their freshness resolution in two tiers      *)
(* (commit-history GET, then HEAD probe), the st.cache_data memoisation    *)
(* of the Streamlit variant, and the base-URL parser _parse_raw_base.      *)
(*                                                                         *)
(* Strings that the code takes apart are sequences of one-character        *)
(* strings; a file name is one token (it holds no "/").  A formatted       *)
(* timestamp "YYYY-MM-DD HH:MM ET" is the record of its fields.            *)
(***************************************************************************)
EXTENDS Integers, Sequences, FiniteSets, TLC

\* Python's None where a str is expected: no string of the model is this
\* sequence, whose one element is not a character
None == <<"None">>

\* ------------------------------------------------------------------------
\* Bounds of the model
\* ------------------------------------------------------------------------
\* longest URL path drawn for _parse_raw_base
MaxPathLen == 9
\* freshness resolutions (one per source of each page run) in one behaviour
MaxResolutions == 4

\* ------------------------------------------------------------------------
\* Strings
\* ------------------------------------------------------------------------
RECURSIVE LStrip(_)
\* str.lstrip("/")
LStrip(s) ==
    IF s # <<>> /\ Head(s) = "/" THEN LStrip(Tail(s)) ELSE s

RECURSIVE RStrip(_)
\* str.rstrip("/")
RStrip(s) ==
    IF s # <<>> /\ s[Len(s)] = "/" THEN RStrip(SubSeq(s, 1, Len(s) - 1)) ELSE s

\* str.strip("/")
Strip(s) == RStrip(LStrip(s))

RECURSIVE SplitFrom(_, _, _)
\* str.split("/"), scanning left to right: cur is the piece being read,
\* acc the pieces already closed.  "".split("/") is [""].
SplitFrom(s, cur, acc) ==
    IF s = <<>> THEN Append(acc, cur)
    ELSE IF Head(s) = "/" THEN SplitFrom(Tail(s), <<>>, Append(acc, cur))
    ELSE SplitFrom(Tail(s), Append(cur, Head(s)), acc)

Split(s) == SplitFrom(s, <<>>, <<>>)

RECURSIVE Join(_)
\* "/".join(parts)
Join(parts) ==
    IF parts = <<>> THEN <<>>
    ELSE IF Len(parts) = 1 THEN parts[1]
    ELSE parts[1] \o <<"/">> \o Join(Tail(parts))

\* Python truthiness of a str-or-None value
Truthy(v) == v # None /\ v # <<>>

\* ------------------------------------------------------------------------
\* _parse_raw_base
\* ------------------------------------------------------------------------
\* A base URL string: bad marks text on which urlparse raises ValueError
\* (for example an unbalanced "[" in the host); path is what urlparse
\* returns as p.path.
MkURL(host, path) == [bad |-> FALSE, host |-> host, path |-> path]

Unparsed == [owner |-> None, repo |-> None, branch |-> None, base_path |-> <<>>]

ParseRawBaseShort(raw_base) ==
    IF raw_base.bad THEN Unparsed
    ELSE LET parts == Split(Strip(raw_base.path))
         IN IF Len(parts) < 3 THEN Unparsed
            ELSE [owner |-> parts[1], repo |-> parts[2], branch |-> parts[3],
                  base_path |-> Join(SubSeq(parts, 4, Len(parts)))]

_parse_raw_base(raw_base) ==
    IF raw_base.bad THEN Unparsed
    ELSE LET parts == Split(Strip(raw_base.path))
         IN IF Len(parts) < 4 THEN Unparsed
            ELSE [owner |-> parts[1], repo |-> parts[2], branch |-> parts[3],
                  base_path |-> Join(SubSeq(parts, 4, Len(parts)))]

\* ------------------------------------------------------------------------
\* Time: UTC instants and their America/New_York civil time
\* ------------------------------------------------------------------------
Instant(y, mo, d, h, mi, s) ==
    [y |-> y, mo |-> mo, d |-> d, h |-> h, mi |-> mi, s |-> s]

IsLeap(y) == (y % 4 = 0 /\ y % 100 # 0) \/ y % 400 = 0

DaysIn(y, mo) ==
    IF mo = 2 THEN (IF IsLeap(y) THEN 29 ELSE 28)
    ELSE IF mo \in {4, 6, 9, 11} THEN 30 ELSE 31

\* minutes since the start of the month's first day, to order instants
\* inside one year
Before(a, b) ==
    \/ a.mo < b.mo
    \/ a.mo = b.mo /\ a.d < b.d
    \/ a.mo = b.mo /\ a.d = b.d /\ a.h < b.h
    \/ a.mo = b.mo /\ a.d = b.d /\ a.h = b.h /\ a.mi < b.mi

\* US daylight time of 2025 in UTC: from 9 March 07:00 to 2 November 06:00
\* (the instants of the model are all of 2025)
IsDST(u) ==
    /\ ~Before(u, Instant(2025, 3, 9, 7, 0, 0))
    /\ Before(u, Instant(2025, 11, 2, 6, 0, 0))

UTCOffsetHours(u) == IF IsDST(u) THEN 4 ELSE 5

PrevDay(u) ==
    IF u.d > 1 THEN [u EXCEPT !.d = u.d - 1]
    ELSE IF u.mo > 1 THEN [u EXCEPT !.mo = u.mo - 1, !.d = DaysIn(u.y, u.mo - 1)]
    ELSE [u EXCEPT !.y = u.y - 1, !.mo = 12, !.d = 31]

\* dt_utc.astimezone(ZoneInfo("America/New_York"))
AsEastern(u) ==
    LET off == UTCOffsetHours(u)
    IN IF u.h >= off THEN [u EXCEPT !.h = u.h - off]
       ELSE [PrevDay(u) EXCEPT !.h = u.h + 24 - off]

\* dt_et.strftime("%Y-%m-%d %H:%M ET"): the seconds are not printed
FormatET(dt) ==
    [y |-> dt.y, mo |-> dt.mo, d |-> dt.d, h |-> dt.h, mi |-> dt.mi, tz |-> "ET"]

ToET(u) == FormatET(AsEastern(u))

\* the sentinel of tier 2, and "no result" of tier 1 (Python's None where a
\* formatted timestamp is expected)
unknown == [text |-> "unknown"]
NoResult == [text |-> "None"]

\* ------------------------------------------------------------------------
\* Values of the two remote answers
\* ------------------------------------------------------------------------
\* dict.get of a key that is not there, and the empty string
Absent == [t |-> "absent"]
EmptyStr == [t |-> "str", form |-> "empty"]
Garbage == [t |-> "str", form |-> "garbage"]
\* "2025-08-24T14:20:31Z" and "2025-08-24T14:20:31+00:00"
IsoZ(u) == [t |-> "str", form |-> "Z", utc |-> u]
IsoOffset(u) == [t |-> "str", form |-> "+00:00", utc |-> u]
\* "Sun, 24 Aug 2025 14:20:31 GMT"
HttpDate(u) == [t |-> "str", form |-> "httpdate", utc |-> u]

\* `not x` for a value that is a str or None
Falsy(x) == x = Absent \/ x = EmptyStr

\* an exception raised inside a try block
Raised == [t |-> "raise"]

\* iso.replace("Z", "+00:00")
ReplaceZ(iso) == IF iso.form = "Z" THEN IsoOffset(iso.utc) ELSE iso

\* datetime.fromisoformat (before Python 3.11 it rejects the "Z" suffix)
fromisoformat(iso) == IF iso.form = "+00:00" THEN iso.utc ELSE Raised

\* email.utils.parsedate_to_datetime
parsedate_to_datetime(stamp) == IF stamp.form = "httpdate" THEN stamp.utc ELSE Raised

\* A JSON member "committer" / "author" of the commit object:
\*   [t |-> "missing"]            the key is not there
\*   [t |-> "null"]               the key is there, its value null
\*   [t |-> "obj", date |-> D]    an object; D is Absent or a string
\* x.get(key, {}).get("date")
DateOf(person) ==
    IF person.t = "missing" THEN Absent
    ELSE IF person.t = "null" THEN Raised
    ELSE person.date

\* ------------------------------------------------------------------------
\* fetch_last_commit_time_et, from the answer of requests.get on
\* ------------------------------------------------------------------------
\* commit.get("committer", {}).get("date") or commit.get("author", {}).get("date")
IsoOfCommit(commit) ==
    LET cd == DateOf(commit.committer)
    IN IF cd = Raised THEN Raised
       ELSE IF ~Falsy(cd) THEN cd
       ELSE DateOf(commit.author)

\* data[0].get("commit", {})
CommitOf(item) ==
    IF item.commit.t = "missing"
    THEN [t |-> "obj", committer |-> [t |-> "missing"], author |-> [t |-> "missing"]]
    ELSE item.commit

CommitTimeOfResponse(r) ==
    IF r.kind # "http" THEN NoResult                  \* requests.get raised
    ELSE IF r.status # 200 THEN NoResult
    ELSE IF r.body.t = "notjson" THEN NoResult          \* r.json() raised
    ELSE IF r.body.t = "dict" THEN NoResult             \* {} is falsy; data[0] raises
    ELSE IF r.body.items = <<>> THEN NoResult
    ELSE LET commit == CommitOf(r.body.items[1])
         IN IF commit.t = "null" THEN NoResult          \* None.get raised
            ELSE LET iso == IsoOfCommit(commit)
                 IN IF iso = Raised THEN NoResult
                    ELSE IF Falsy(iso) THEN NoResult
                    ELSE LET dt_utc == fromisoformat(ReplaceZ(iso))
                         IN IF dt_utc = Raised THEN NoResult
                            ELSE ToET(dt_utc)

\* ------------------------------------------------------------------------
\* fetch_last_modified_et_from_raw, from the answer of requests.head on
\* ------------------------------------------------------------------------
\* r.headers.get("Last-Modified") or r.headers.get("Date")
StampOf(r) == IF ~Falsy(r.last_modified) THEN r.last_modified ELSE r.date

LastModifiedOfResponse(r) ==
    IF r.kind # "http" THEN unknown                     \* requests.head raised
    ELSE LET stamp == StampOf(r)
         IN IF Falsy(stamp) THEN unknown
            ELSE LET dt_utc == parsedate_to_datetime(stamp)
                 IN IF dt_utc = Raised THEN unknown
                    ELSE ToET(dt_utc)

\* ------------------------------------------------------------------------
\* Inputs
\* ------------------------------------------------------------------------
\* UTC instants: summer, a new-year night, both sides of both changes of
\* the clock, and a night before 1 March
SummerNoon == Instant(2025, 8, 24, 14, 20, 31)
NewYearNight == Instant(2025, 1, 1, 3, 10, 0)
Instants ==
    { SummerNoon, NewYearNight,
      Instant(2025, 3, 9, 7, 0, 5), Instant(2025, 3, 9, 6, 59, 59),
      Instant(2025, 11, 2, 6, 0, 0), Instant(2025, 11, 2, 5, 59, 0),
      Instant(2025, 3, 1, 2, 0, 0) }

\* the instants the answers of a page run carry: one in the commit
\* history, another in the headers of the file
PageCommitInstants == {SummerNoon}
PageHeadInstants == {NewYearNight}

PersonsOver(us) ==
    {[t |-> "missing"], [t |-> "null"]}
    \cup {[t |-> "obj", date |-> d] :
            d \in {Absent, EmptyStr, Garbage}
                  \cup {IsoZ(u) : u \in us} \cup {IsoOffset(u) : u \in us}}

CommitsOver(us) ==
    {[t |-> "missing"], [t |-> "null"]}
    \cup {[t |-> "obj", committer |-> c, author |-> a] :
            c \in PersonsOver(us), a \in PersonsOver(us)}

\* answers to the commit-history GET
CommitAnswersOver(us) ==
    {[kind |-> "error"], [kind |-> "timeout"]}
    \cup {[kind |-> "http", status |-> st, body |-> [t |-> "notjson"]] :
            st \in {403, 404, 500}}
    \cup {[kind |-> "http", status |-> 200, body |-> b] :
            b \in {[t |-> "notjson"], [t |-> "dict"], [t |-> "list", items |-> <<>>]}}
    \cup {[kind |-> "http", status |-> 200,
           body |-> [t |-> "list", items |-> <<[commit |-> c]>>]] :
            c \in CommitsOver(us)}

HeadersOver(us) == {Absent, EmptyStr, Garbage} \cup {HttpDate(u) : u \in us}

\* answers to the HEAD probe
HeadAnswersOver(us, sts) ==
    {[kind |-> "error"], [kind |-> "timeout"]}
    \cup {[kind |-> "http", status |-> st, last_modified |-> lm, date |-> dh] :
            st \in sts, lm \in HeadersOver(us), dh \in HeadersOver(us)}

PathChars == {"/", "a", "b"}

Paths == UNION {[1..n -> PathChars] : n \in 0..MaxPathLen}

ParseInputs ==
    {MkURL("host", p) : p \in Paths} \cup {[bad |-> TRUE, host |-> "[", path |-> <<>>]}

\* ------------------------------------------------------------------------
\* State
\* ------------------------------------------------------------------------
\* The runs of one session follow one another; a run of another session
\* that races with one of them is seen through the entry it stores
\* (OtherRunStoresCommit, OtherRunStoresHead).
VARIABLES
    fn,           \* the function a single call is made to, "" in a page run
    arg,          \* its argument
    ret,          \* its return value, NotYet before the call
    variant,      \* "flask": index() with the functions of lines 56-98;
                  \* "streamlit": the script with those of lines 273-331
    nshown,       \* how many of SOURCES a page shows
    resolutions,  \* freshness resolutions of the runs begun so far
    RAW_BASE,     \* per session, the base URL of the run
    parsed,       \* per session, (owner, repo, branch, base_path)
    pc,           \* per session, where the run stands
    idx,          \* per session, the position in SOURCES
    last_mod_et,  \* per session, the label being resolved
    tables,       \* per session, the panels produced so far
    req,          \* per session, the request in flight
    cache_commit, \* st.cache_data of fetch_last_commit_time_et
    cache_head,   \* st.cache_data of fetch_last_modified_et_from_raw
    hist,         \* per session, what the resolution under way has done
    done          \* the age of the last answered remote call per tier and URL

NotYet == [t |-> "notyet"]

fnvars == <<fn, arg, ret>>

pagevars ==
    <<variant, nshown, resolutions, RAW_BASE, parsed, pc, idx, last_mod_et,
      tables, req, cache_commit, cache_head, hist, done>>

vars == <<fnvars, pagevars>>

Sessions == {"s1"}

NoReq == [method |-> "none"]
NoFrom == [url |-> [host |-> "", path |-> <<>>], args |-> <<>>]
\* what a resolution remembers of the answer to its commit-history GET:
\* none yet; an answer the spec counts as "no result" (network error,
\* status other than 200, empty list, no timestamp); the committer date of
\* an answer that carries one; any other answer
NoAnswer == [t |-> "noanswer"]
NoResultAnswer == [t |-> "noresult"]
OtherAnswer == [t |-> "other"]

\* nothing done yet in a resolution
FreshHist ==
    [gets |-> 0, heads |-> 0, calls2 |-> 0, ans1 |-> NoAnswer,
     fail2 |-> "", from1 |-> NoFrom, from2 |-> NoFrom]

\* no page run is going on
Parked ==
    /\ variant = "none"
    /\ nshown = 1
    /\ resolutions = 0
    /\ RAW_BASE = [t \in Sessions |-> MkURL("", <<>>)]
    /\ parsed = [t \in Sessions |-> Unparsed]
    /\ pc = [t \in Sessions |-> "idle"]
    /\ idx = [t \in Sessions |-> 1]
    /\ last_mod_et = [t \in Sessions |-> NoResult]
    /\ tables = [t \in Sessions |-> <<>>]
    /\ req = [t \in Sessions |-> NoReq]
    /\ cache_commit = {}
    /\ cache_head = {}
    /\ hist = [t \in Sessions |-> FreshHist]
    /\ done = {}

\* ------------------------------------------------------------------------
\* Single calls of the three functions
\* ------------------------------------------------------------------------
InitFn ==
    /\ Parked
    /\ ret = NotYet
    /\ \/ fn = "_parse_raw_base" /\ arg \in ParseInputs
       \/ fn = "fetch_last_commit_time_et" /\ arg \in CommitAnswersOver(Instants)
       \/ fn = "fetch_last_modified_et_from_raw" /\ arg \in HeadAnswersOver(Instants, {200, 204, 404, 500})

CallParse ==
    /\ fn = "_parse_raw_base" /\ ret = NotYet
    /\ ret' = _parse_raw_base(arg)
    /\ UNCHANGED <<fn, arg, pagevars>>

CallCommitTime ==
    /\ fn = "fetch_last_commit_time_et" /\ ret = NotYet
    /\ ret' = CommitTimeOfResponse(arg)
    /\ UNCHANGED <<fn, arg, pagevars>>

CallLastModified ==
    /\ fn = "fetch_last_modified_et_from_raw" /\ ret = NotYet
    /\ ret' = LastModifiedOfResponse(arg)
    /\ UNCHANGED <<fn, arg, pagevars>>

NextFn == CallParse \/ CallCommitTime \/ CallLastModified

SpecFn == InitFn /\ [][NextFn]_vars

\* ------------------------------------------------------------------------
\* Reference values the claims are stated with
\* ------------------------------------------------------------------------
Stamp(y, mo, d, h, mi) ==
    [y |-> y, mo |-> mo, d |-> d, h |-> h, mi |-> mi, tz |-> "ET"]

\* New York wall-clock time of each instant of the model, from the zone's
\* published rules (EST = UTC-5, EDT = UTC-4 from 9 March to 2 November 2025)
ExpectedET(u) ==
    CASE u = Instant(2025, 8, 24, 14, 20, 31) -> Stamp(2025, 8, 24, 10, 20)
      [] u = Instant(2025, 1, 1, 3, 10, 0)    -> Stamp(2024, 12, 31, 22, 10)
      [] u = Instant(2025, 3, 9, 7, 0, 5)     -> Stamp(2025, 3, 9, 3, 0)
      [] u = Instant(2025, 3, 9, 6, 59, 59)   -> Stamp(2025, 3, 9, 1, 59)
      [] u = Instant(2025, 11, 2, 6, 0, 0)    -> Stamp(2025, 11, 2, 1, 0)
      [] u = Instant(2025, 11, 2, 5, 59, 0)   -> Stamp(2025, 11, 2, 1, 59)
      [] u = Instant(2025, 3, 1, 2, 0, 0)     -> Stamp(2025, 2, 28, 21, 0)

\* a JSON member that holds a well-formed timestamp
HasTimestamp(person) ==
    /\ person.t = "obj"
    /\ person.date # Absent
    /\ person.date.form \in {"Z", "+00:00"}

\* the four ways a timestamp is absent: key missing, value null, object
\* without "date", "date" empty
TimestampAbsent(person) ==
    \/ person.t \in {"missing", "null"}
    \/ person.t = "obj" /\ person.date \in {Absent, EmptyStr}

\* an answer 200 whose body is a non-empty list with a commit object first
HasCommit(r) ==
    /\ r.kind = "http"
    /\ r.status = 200
    /\ r.body.t = "list"
    /\ r.body.items # <<>>
    /\ r.body.items[1].commit.t = "obj"

FirstCommit(r) == r.body.items[1].commit

\* The path without its leading and trailing slashes, by positions
Core(p) ==
    LET keep == {i \in 1..Len(p) : p[i] # "/"}
    IN IF keep = {} THEN <<>>
       ELSE LET lo == CHOOSE i \in keep : \A j \in keep : i <= j
                hi == CHOOSE i \in keep : \A j \in keep : j <= i
            IN SubSeq(p, lo, hi)

Slashes(c) == {i \in 1..Len(c) : c[i] = "/"}

\* position of the k-th slash of c; 0 before the first, Len(c)+1 after the last
SlashAt(c, k) ==
    IF k = 0 THEN 0
    ELSE IF k > Cardinality(Slashes(c)) THEN Len(c) + 1
    ELSE CHOOSE i \in Slashes(c) : Cardinality({j \in Slashes(c) : j < i}) = k - 1

\* the segments of a path are the pieces of Core(p) between slashes; two
\* adjacent slashes enclose an empty segment
NumSegments(p) == Cardinality(Slashes(Core(p))) + 1

Segment(p, k) ==
    SubSeq(Core(p), SlashAt(Core(p), k - 1) + 1, SlashAt(Core(p), k) - 1)

\* segments k..N joined by "/": what follows the (k-1)-th slash
SegmentsFrom(p, k) ==
    SubSeq(Core(p), SlashAt(Core(p), k - 1) + 1, Len(Core(p)))

\* the non-empty segments, in order
NonEmptySegments(p) ==
    LET full == {k \in 1..NumSegments(p) : Segment(p, k) # <<>>}
        nth(n) == CHOOSE k \in full : Cardinality({j \in full : j < k}) = n - 1
    IN [n \in 1..Cardinality(full) |-> Segment(p, nth(n))]

Returned(f) == fn = f /\ ret # NotYet

\* ------------------------------------------------------------------------
\* Claims about the single calls
\* ------------------------------------------------------------------------
\* C4: tier 2 returns "unknown" whenever the HEAD request answers with a
\* status outside 200..299, whatever headers the answer carries.
C4_Non2xxIsUnknown ==
    (Returned("fetch_last_modified_et_from_raw")
        /\ arg.kind = "http" /\ arg.status \notin 200..299)
    => ret = unknown

\* C9: for an answer 200 whose first commit has an author timestamp, tier 1
\* returns the committer timestamp when there is one and the author
\* timestamp when the committer timestamp is absent in any of the four
\* ways; it returns no result only when both are absent.
C9_CommitterElseAuthor ==
    (Returned("fetch_last_commit_time_et") /\ HasCommit(arg))
    => LET c == FirstCommit(arg).committer
           a == FirstCommit(arg).author
       IN /\ (HasTimestamp(a) /\ HasTimestamp(c)) => ret = ExpectedET(c.date.utc)
          /\ (HasTimestamp(a) /\ TimestampAbsent(c)) => ret = ExpectedET(a.date.utc)
          /\ (ret = NoResult /\ (HasTimestamp(c) \/ TimestampAbsent(c))
                             /\ (HasTimestamp(a) \/ TimestampAbsent(a)))
                => (TimestampAbsent(c) /\ TimestampAbsent(a))

\* C6 as stated, its segments read as the non-empty ones: with four or
\* more of them the result is the first three and the rest joined, with
\* fewer (or text that is no URL) the unparsed sentinel.
C6_NonEmptySegments ==
    Returned("_parse_raw_base")
    => LET ne == IF arg.bad THEN <<>> ELSE NonEmptySegments(arg.path)
       IN IF Len(ne) >= 4
          THEN ret = [owner |-> ne[1], repo |-> ne[2], branch |-> ne[3],
                      base_path |-> Join(SubSeq(ne, 4, Len(ne)))]
          ELSE ret.owner = None /\ ret.repo = None /\ ret.branch = None

\* C6, amended: the segments are the pieces between the slashes of the
\* path without its leading and trailing slashes, empty pieces counted.
\* With four or more of them the result is segments 1..3 and segments
\* 4..N joined by "/"; with fewer, and for text that is no URL, owner,
\* repo and branch are all None.
C6_ParseRawBase ==
    Returned("_parse_raw_base")
    => IF ~arg.bad /\ NumSegments(arg.path) >= 4
       THEN /\ ret.owner = Segment(arg.path, 1)
            /\ ret.repo = Segment(arg.path, 2)
            /\ ret.branch = Segment(arg.path, 3)
            /\ ret.base_path = SegmentsFrom(arg.path, 4)
       ELSE ret.owner = None /\ ret.repo = None /\ ret.branch = None

\* a parsed address whose base_path has two segments
C6_Witness ==
    /\ Returned("_parse_raw_base")
    /\ ~arg.bad
    /\ NumSegments(arg.path) = 5
    /\ ret.owner # None
    /\ \E i \in 1..Len(ret.base_path) : ret.base_path[i] = "/"

\* ------------------------------------------------------------------------
\* The page: configuration
\* ------------------------------------------------------------------------
SOURCES ==
    << [id |-> "finalcandidates", title |-> "Final Candidates",
        file |-> "final_candidates.csv"],
       [id |-> "etffinalcandidates", title |-> "ETF Final Candidates",
        file |-> "etf_final_candidates.csv"],
       [id |-> "toptrimcandidates", title |-> "Top Trim Candidates",
        file |-> "web_top_trim.csv"],
       [id |-> "rollrecommendation", title |-> "Roll Recommendations",
        file |-> "roll_recommendations.csv"],
       [id |-> "portfoliosummary", title |-> "Portfolio Summary",
        file |-> "web_portfolio_summary.csv"],
       [id |-> "earlyprofit", title |-> "Early Profit",
        file |-> "web_early_profit.csv"] >>

\* the sources a page of the model shows: the first nshown of SOURCES
Shown == SubSeq(SOURCES, 1, nshown)

\* https://raw.githubusercontent.com/<owner>/<repo>/<branch>/data, each
\* path segment one character
RAW_BASE_DEFAULT ==
    MkURL("raw.githubusercontent.com", <<"/", "o", "/", "r", "/", "m", "/", "d">>)

\* the same path on another host
MirrorBase == MkURL("mirror.example", <<"/", "o", "/", "r", "/", "m", "/", "d">>)

\* a path of two segments
ShortBase == MkURL("raw.githubusercontent.com", <<"/", "o", "/", "r">>)

\* four segments, the second empty
EmptyRepoBase ==
    MkURL("raw.githubusercontent.com", <<"/", "o", "/", "/", "m", "/", "d">>)

\* the empty string
EmptyText == MkURL("", <<>>)

\* values of the environment variable RAW_BASE
EnvTexts == {RAW_BASE_DEFAULT, MirrorBase, ShortBase, EmptyRepoBase}

\* texts of the sidebar field
SidebarTexts == EnvTexts \cup {EmptyText}

\* ttl of the st.cache_data decorators of the two tiers, in seconds
HeadTTL == 300
CommitTTL == 300

\* ------------------------------------------------------------------------
\* The page: helpers
\* ------------------------------------------------------------------------
\* url = RAW_BASE.rstrip("/") + "/" + src["file"]
FileURL(raw_base, file) ==
    [host |-> raw_base.host, path |-> RStrip(raw_base.path) \o <<"/", file>>]

URLOf(t) == FileURL(RAW_BASE[t], Shown[idx[t]].file)

\* the arguments fetch_last_commit_time_et is called with
ArgsOf(t) ==
    <<parsed[t].owner, parsed[t].repo, parsed[t].branch, parsed[t].base_path,
      Shown[idx[t]].file>>

\* if owner and repo and branch is not None
Tier1Always(p) == TRUE

Tier1Applicable(p) == Truthy(p.owner) /\ Truthy(p.repo) /\ p.branch # None

\* if not last_mod_et
Tier2Always(label) == TRUE

NeedsTier2(label) == label = NoResult

\* requests.get(url, params=params, headers=headers, timeout=10); the
\* Authorization header, which no answer of the model depends on, is left out
CommitsRequest(a) ==
    [method |-> "GET",
     url |-> <<"https://api.github.com/repos", a[1], a[2], "commits">>,
     path |-> LStrip(a[4] \o <<"/", a[5]>>),
     sha |-> a[3],
     per_page |-> 1,
     accept |-> "application/vnd.github+json",
     timeout |-> 10]

\* requests.head(url, timeout=10)
HeadRequest(url) == [method |-> "HEAD", url |-> url, timeout |-> 10]

\* st.cache_data keys an entry by the arguments of the call
CommitKeyNoFile(a) == <<a[1], a[2], a[3], a[4], "">>

CommitKey(a) == a

HeadKey(url) == url

\* an entry is live for ttl seconds from the time it was stored: age is
\* the time since then
Live(e, ttl) == e.age < ttl

LiveEntries(cache, key, ttl) == {e \in cache : e.key = key /\ Live(e, ttl)}

\* writing an entry replaces the one of the same key
Store(cache, key, value, by) ==
    {e \in cache : e.key # key}
    \cup {[key |-> key, value |-> value, age |-> 0, by |-> by]}

Cached == variant = "streamlit"

\* what the run of session t is, as the storer of a cache entry
Me(t) == [url |-> URLOf(t), args |-> ArgsOf(t)]

Answered(tier, url) ==
    {d \in done : ~(d.tier = tier /\ d.url = url)}
    \cup {[tier |-> tier, url |-> url, age |-> 0]}

\* what is remembered of an answer r to the commit-history GET
NoteOfCommitAnswer(r) ==
    IF r.kind # "http" THEN NoResultAnswer
    ELSE IF r.status # 200 THEN NoResultAnswer
    ELSE IF r.body.t = "list" /\ r.body.items = <<>> THEN NoResultAnswer
    ELSE IF ~HasCommit(r) THEN OtherAnswer
    ELSE IF HasTimestamp(FirstCommit(r).committer)
         THEN FirstCommit(r).committer.date.utc
    ELSE IF TimestampAbsent(FirstCommit(r).committer)
            /\ TimestampAbsent(FirstCommit(r).author) THEN NoResultAnswer
    ELSE OtherAnswer

\* a failure of the HEAD probe: network error, status outside 200..299,
\* header missing or unparseable
HeadFailed(r) ==
    \/ r.kind # "http"
    \/ r.status \notin 200..299
    \/ LET stamp == IF r.last_modified \in {Absent, EmptyStr} THEN r.date
                    ELSE r.last_modified
       IN stamp \in {Absent, EmptyStr, Garbage}

\* The answers a page run can get to its GET, each with the value
\* fetch_last_commit_time_et returns on it and with what the resolution
\* remembers of it; answers that agree in both are one outcome.
CommitOutcomes ==
    {[value |-> CommitTimeOfResponse(r), note |-> NoteOfCommitAnswer(r)] :
        r \in CommitAnswersOver(PageCommitInstants)}

\* The same for the HEAD and fetch_last_modified_et_from_raw
HeadOutcomes ==
    {[value |-> LastModifiedOfResponse(r),
      note |-> IF HeadFailed(r) THEN "failed" ELSE "ok"] :
        r \in HeadAnswersOver(PageHeadInstants, {200, 404})}

\* ------------------------------------------------------------------------
\* The page: a run, step by step
\* ------------------------------------------------------------------------
Init ==
    /\ fn = "" /\ arg = NotYet /\ ret = NotYet
    /\ variant \in {"flask", "streamlit"}
    /\ nshown \in {n \in 1..Len(SOURCES) : 2 * n <= MaxResolutions}
    /\ resolutions = 0
    /\ \E b \in EnvTexts :
          RAW_BASE = [t \in Sessions |-> IF variant = "flask" THEN b ELSE RAW_BASE_DEFAULT]
    /\ parsed = [t \in Sessions |-> Unparsed]
    /\ pc = [t \in Sessions |-> "idle"]
    /\ idx = [t \in Sessions |-> 1]
    /\ last_mod_et = [t \in Sessions |-> NoResult]
    /\ tables = [t \in Sessions |-> <<>>]
    /\ req = [t \in Sessions |-> NoReq]
    /\ cache_commit = {}
    /\ cache_head = {}
    /\ hist = [t \in Sessions |-> FreshHist]
    /\ done = {}

\* the first lines of a run with base URL b: tables = [], the parse of the
\* base URL, and the top of the loop for the first source (now_et, the
\* time shown as "Fetched", is read here and is not modelled)
Begin(t, b) ==
    /\ pc[t] \in {"idle", "done"}
    /\ resolutions + nshown <= MaxResolutions
    /\ resolutions' = resolutions + nshown
    /\ RAW_BASE' = [RAW_BASE EXCEPT ![t] = b]
    /\ parsed' = [parsed EXCEPT ![t] = _parse_raw_base(b)]
    /\ tables' = [tables EXCEPT ![t] = <<>>]
    /\ idx' = [idx EXCEPT ![t] = 1]
    /\ last_mod_et' = [last_mod_et EXCEPT ![t] = NoResult]
    /\ hist' = [hist EXCEPT ![t] = FreshHist]
    /\ pc' = [pc EXCEPT ![t] = "tier1"]
    /\ UNCHANGED <<fnvars, variant, nshown, req, cache_commit, cache_head, done>>

\* index(): a request for "/" arrives
FlaskIndex(t) ==
    /\ variant = "flask"
    /\ Begin(t, RAW_BASE[t])

\* a run of the Streamlit script: RAW_BASE = raw_base_in or RAW_BASE_DEFAULT
StreamlitRun(t) ==
    /\ variant = "streamlit"
    /\ \E raw_base_in \in SidebarTexts :
          Begin(t, IF raw_base_in = EmptyText THEN RAW_BASE_DEFAULT ELSE raw_base_in)

\* the guard of tier 1 is false
Tier1Skip(t) ==
    /\ pc[t] = "tier1"
    /\ ~Tier1Applicable(parsed[t])
    /\ pc' = [pc EXCEPT ![t] = "tier2"]
    /\ UNCHANGED <<fnvars, variant, nshown, resolutions, RAW_BASE, parsed, idx,
                   last_mod_et, tables, req, cache_commit, cache_head,
                   hist, done>>

\* fetch_last_commit_time_et returns a live entry of its cache
Tier1Hit(t) ==
    /\ pc[t] = "tier1"
    /\ Tier1Applicable(parsed[t])
    /\ Cached
    /\ \E e \in LiveEntries(cache_commit, CommitKey(ArgsOf(t)), CommitTTL) :
          /\ last_mod_et' = [last_mod_et EXCEPT ![t] = e.value]
          /\ hist' = [hist EXCEPT ![t].from1 = e.by]
    /\ pc' = [pc EXCEPT ![t] = "tier2"]
    /\ UNCHANGED <<fnvars, variant, nshown, resolutions, RAW_BASE, parsed, idx,
                   tables, req, cache_commit, cache_head, done>>

\* the body of fetch_last_commit_time_et runs: the GET is sent
Tier1Send(t) ==
    /\ pc[t] = "tier1"
    /\ Tier1Applicable(parsed[t])
    /\ Cached => LiveEntries(cache_commit, CommitKey(ArgsOf(t)), CommitTTL) = {}
    /\ req' = [req EXCEPT ![t] = CommitsRequest(ArgsOf(t))]
    /\ hist' = [hist EXCEPT ![t].gets = @ + 1]
    /\ pc' = [pc EXCEPT ![t] = "tier1_wait"]
    /\ UNCHANGED <<fnvars, variant, nshown, resolutions, RAW_BASE, parsed, idx,
                   last_mod_et, tables, cache_commit, cache_head, done>>

\* the GET is answered (or fails, or times out); the result is stored
Tier1Recv(t) ==
    /\ pc[t] = "tier1_wait"
    /\ \E o \in CommitOutcomes :
          /\ last_mod_et' = [last_mod_et EXCEPT ![t] = o.value]
          /\ cache_commit' =
                IF Cached THEN Store(cache_commit, CommitKey(ArgsOf(t)), o.value, Me(t))
                ELSE cache_commit
          /\ hist' = [hist EXCEPT ![t].ans1 = o.note]
    /\ done' = Answered(1, URLOf(t))
    /\ req' = [req EXCEPT ![t] = NoReq]
    /\ pc' = [pc EXCEPT ![t] = "tier2"]
    /\ UNCHANGED <<fnvars, variant, nshown, resolutions, RAW_BASE, parsed, idx,
                   tables, cache_head>>

\* a label is there already: tier 2 is not called
Tier2Skip(t) ==
    /\ pc[t] = "tier2"
    /\ ~NeedsTier2(last_mod_et[t])
    /\ pc' = [pc EXCEPT ![t] = "csv"]
    /\ UNCHANGED <<fnvars, variant, nshown, resolutions, RAW_BASE, parsed, idx,
                   last_mod_et, tables, req, cache_commit, cache_head,
                   hist, done>>

\* fetch_last_modified_et_from_raw returns a live entry of its cache
Tier2Hit(t) ==
    /\ pc[t] = "tier2"
    /\ NeedsTier2(last_mod_et[t])
    /\ Cached
    /\ \E e \in LiveEntries(cache_head, HeadKey(URLOf(t)), HeadTTL) :
          /\ last_mod_et' = [last_mod_et EXCEPT ![t] = e.value]
          /\ hist' = [hist EXCEPT ![t].from2 = e.by, ![t].calls2 = @ + 1]
    /\ pc' = [pc EXCEPT ![t] = "csv"]
    /\ UNCHANGED <<fnvars, variant, nshown, resolutions, RAW_BASE, parsed, idx,
                   tables, req, cache_commit, cache_head, done>>

\* the body of fetch_last_modified_et_from_raw runs: the HEAD is sent
Tier2Send(t) ==
    /\ pc[t] = "tier2"
    /\ NeedsTier2(last_mod_et[t])
    /\ Cached => LiveEntries(cache_head, HeadKey(URLOf(t)), HeadTTL) = {}
    /\ req' = [req EXCEPT ![t] = HeadRequest(URLOf(t))]
    /\ hist' = [hist EXCEPT ![t].heads = @ + 1, ![t].calls2 = @ + 1]
    /\ pc' = [pc EXCEPT ![t] = "tier2_wait"]
    /\ UNCHANGED <<fnvars, variant, nshown, resolutions, RAW_BASE, parsed, idx,
                   last_mod_et, tables, cache_commit, cache_head, done>>

\* the HEAD is answered (or fails, or times out); the result is stored
Tier2Recv(t) ==
    /\ pc[t] = "tier2_wait"
    /\ \E o \in HeadOutcomes :
          /\ last_mod_et' = [last_mod_et EXCEPT ![t] = o.value]
          /\ cache_head' =
                IF Cached THEN Store(cache_head, HeadKey(URLOf(t)), o.value, Me(t))
                ELSE cache_head
          /\ hist' = [hist EXCEPT ![t].fail2 = o.note]
    /\ done' = Answered(2, URLOf(t))
    /\ req' = [req EXCEPT ![t] = NoReq]
    /\ pc' = [pc EXCEPT ![t] = "csv"]
    /\ UNCHANGED <<fnvars, variant, nshown, resolutions, RAW_BASE, parsed, idx,
                   tables, cache_commit>>

\* the panel of the source at hand, with content html
Panel(t, html) ==
    [id |-> Shown[idx[t]].id, title |-> Shown[idx[t]].title,
     file |-> Shown[idx[t]].file, url |-> URLOf(t),
     last_modified |-> last_mod_et[t], html |-> html]

\* the panel is added and the loop goes on: the next source with
\* last_mod_et = None, or the end of the loop
AbortOnError(t, html) ==
    IF html = "error"
    THEN /\ tables' = [tables EXCEPT ![t] = <<>>]
         /\ pc' = [pc EXCEPT ![t] = "render"]
         /\ last_mod_et' = [last_mod_et EXCEPT ![t] = NoResult]
         /\ hist' = [hist EXCEPT ![t] = FreshHist]
         /\ idx' = idx
    ELSE /\ tables' = [tables EXCEPT ![t] = Append(@, Panel(t, html))]
         /\ last_mod_et' = [last_mod_et EXCEPT ![t] = NoResult]
         /\ hist' = [hist EXCEPT ![t] = FreshHist]
         /\ IF idx[t] < Len(Shown)
            THEN idx' = [idx EXCEPT ![t] = @ + 1] /\ pc' = [pc EXCEPT ![t] = "tier1"]
            ELSE idx' = idx /\ pc' = [pc EXCEPT ![t] = "render"]

AddPanel(t, html) ==
    /\ tables' = [tables EXCEPT ![t] = Append(@, Panel(t, html))]
    /\ last_mod_et' = [last_mod_et EXCEPT ![t] = NoResult]
    /\ hist' = [hist EXCEPT ![t] = FreshHist]
    /\ IF idx[t] < Len(Shown)
       THEN idx' = [idx EXCEPT ![t] = @ + 1] /\ pc' = [pc EXCEPT ![t] = "tier1"]
       ELSE idx' = idx /\ pc' = [pc EXCEPT ![t] = "render"]

\* index(): pd.read_csv(url) and df.to_html, or the alert of the except branch
FlaskLoad(t) ==
    /\ pc[t] = "csv"
    /\ variant = "flask"
    /\ \E read \in {"rows", "empty", "fail"} :
          AddPanel(t, IF read = "fail" THEN "error" ELSE "table")
    /\ UNCHANGED <<fnvars, variant, nshown, resolutions, RAW_BASE, parsed, req,
                   cache_commit, cache_head, done>>

\* what the tab shows of a data frame
Shows(df) == IF df = "empty" THEN "info" ELSE "dataframe"

\* load_csv(url): pd.read_csv(url); if it raises, requests.get and
\* pd.read_csv of the bytes; if that raises too, RuntimeError, which the
\* tab shows with st.error.  Its st.cache_data (ttl 120) only repeats an
\* earlier data frame and is not modelled: every outcome stays possible.
StreamlitLoad(t) ==
    /\ pc[t] = "csv"
    /\ variant = "streamlit"
    /\ \E read \in {"rows", "empty", "fail"}, again \in {"rows", "empty", "fail"} :
          LET df == IF read # "fail" THEN read ELSE again
          IN AddPanel(t, IF df = "fail" THEN "error" ELSE Shows(df))
    /\ UNCHANGED <<fnvars, variant, nshown, resolutions, RAW_BASE, parsed, req,
                   cache_commit, cache_head, done>>

\* return render_template_string(HTML, tables=tables), resp. the footer:
\* the page is sent and the locals of the run are gone
Finish(t) ==
    /\ pc[t] = "render"
    /\ pc' = [pc EXCEPT ![t] = "done"]
    /\ tables' = [tables EXCEPT ![t] = <<>>]
    /\ idx' = [idx EXCEPT ![t] = 1]
    /\ UNCHANGED <<fnvars, variant, nshown, resolutions, RAW_BASE, parsed,
                   last_mod_et, req, cache_commit, cache_head, hist, done>>

\* every entry of a cache is older by dt; one that is no longer live is
\* never read again and is dropped
Aged(cache, dt, ttl) ==
    {e \in {[c EXCEPT !.age = @ + dt] : c \in cache} : Live(e, ttl)}

\* time passes, half a ttl at once, between page runs: a run is short
\* against the ttl, each of its requests ending within its timeout
Tick ==
    /\ variant \in {"flask", "streamlit"}
    /\ \A t \in Sessions : pc[t] \in {"idle", "done"}
    /\ cache_commit # {} \/ cache_head # {} \/ done # {}
    /\ cache_commit' = Aged(cache_commit, CommitTTL \div 2, CommitTTL)
    /\ cache_head' = Aged(cache_head, HeadTTL \div 2, HeadTTL)
    /\ done' = Aged(done, HeadTTL \div 2, HeadTTL)
    /\ UNCHANGED <<fnvars, variant, nshown, resolutions, RAW_BASE, parsed, pc, idx,
                   last_mod_et, tables, req, hist>>

\* Another run of the Streamlit script, in another session, resolves the
\* same file at the same time: both found no live entry, both sent the
\* request, and the other run stores its result while the request of this
\* one is in flight.  The caches are all that the sessions share, so the
\* other run is seen by what it stores.
OtherRunStoresCommit(t) ==
    /\ Cached
    /\ pc[t] = "tier1_wait"
    /\ \E o \in CommitOutcomes :
          cache_commit' = Store(cache_commit, CommitKey(ArgsOf(t)), o.value, Me(t))
    /\ done' = Answered(1, URLOf(t))
    /\ UNCHANGED <<fnvars, variant, nshown, resolutions, RAW_BASE, parsed, pc, idx,
                   last_mod_et, tables, req, cache_head, hist>>

OtherRunStoresHead(t) ==
    /\ Cached
    /\ pc[t] = "tier2_wait"
    /\ \E o \in HeadOutcomes :
          cache_head' = Store(cache_head, HeadKey(URLOf(t)), o.value, Me(t))
    /\ done' = Answered(2, URLOf(t))
    /\ UNCHANGED <<fnvars, variant, nshown, resolutions, RAW_BASE, parsed, pc, idx,
                   last_mod_et, tables, req, cache_commit, hist>>

\* the steps of a run once it has begun
Step(t) ==
    \/ Tier1Skip(t) \/ Tier1Hit(t) \/ Tier1Send(t) \/ Tier1Recv(t)
    \/ Tier2Skip(t) \/ Tier2Hit(t) \/ Tier2Send(t) \/ Tier2Recv(t)
    \/ FlaskLoad(t) \/ StreamlitLoad(t)
    \/ Finish(t)

Next ==
    \/ \E t \in Sessions : FlaskIndex(t)
    \/ \E t \in Sessions : StreamlitRun(t)
    \/ \E t \in Sessions : Tier1Skip(t)
    \/ \E t \in Sessions : Tier1Hit(t)
    \/ \E t \in Sessions : Tier1Send(t)
    \/ \E t \in Sessions : Tier1Recv(t)
    \/ \E t \in Sessions : Tier2Skip(t)
    \/ \E t \in Sessions : Tier2Hit(t)
    \/ \E t \in Sessions : Tier2Send(t)
    \/ \E t \in Sessions : Tier2Recv(t)
    \/ \E t \in Sessions : FlaskLoad(t)
    \/ \E t \in Sessions : StreamlitLoad(t)
    \/ \E t \in Sessions : Finish(t)
    \/ \E t \in Sessions : OtherRunStoresCommit(t)
    \/ \E t \in Sessions : OtherRunStoresHead(t)
    \/ Tick

Spec == Init /\ [][Next]_vars

\* a run that has begun goes on: every call of it returns, the remote ones
\* within their timeout
FairSpec == Spec /\ \A t \in Sessions : WF_vars(Step(t))

\* ------------------------------------------------------------------------
\* Claims about the page
\* ------------------------------------------------------------------------
\* the resolution of session t has an answer 200 to its GET whose first
\* commit carries a committer date
GotCommitterDate(t) == hist[t].ans1 \in PageCommitInstants

\* C1: when tier 1 is attempted and the provider answers 200 with a
\* non-empty list whose first commit carries a committer date, the result
\* of the resolution is that date in New York time, formatted
\* "YYYY-MM-DD HH:MM ET", and tier 2 is not invoked in that resolution.
C1_CommitterDateIsResult ==
    \A t \in Sessions :
        GotCommitterDate(t)
        => /\ last_mod_et[t] = ExpectedET(hist[t].ans1)
           /\ hist[t].calls2 = 0
           /\ hist[t].heads = 0
           /\ pc[t] \in {"tier2", "csv"}

\* scenario 1 of the spec: 2025-08-24T14:20:31Z gives "2025-08-24 10:20 ET"
C1_Witness ==
    \E t \in Sessions :
        /\ pc[t] = "csv"
        /\ hist[t].gets = 1
        /\ hist[t].ans1 = Instant(2025, 8, 24, 14, 20, 31)
        /\ last_mod_et[t] = Stamp(2025, 8, 24, 10, 20)

\* neither tier was answered from its cache in the resolution of session t
NothingCached(t) == hist[t].from1 = NoFrom /\ hist[t].from2 = NoFrom

\* the base URL of session t did not parse
IsUnparsed(t) ==
    parsed[t].owner = None /\ parsed[t].repo = None /\ parsed[t].branch = None

\* C2: in a resolution with nothing cached, if the base URL is unparsed or
\* tier 1 yields no result (network error, status other than 200, empty
\* list, no timestamp), the HEAD probe is sent exactly once; and for an
\* unparsed base URL no commit-history request is ever sent.
C2_Tier2ExactlyOnce ==
    \A t \in Sessions :
        /\ IsUnparsed(t) => (hist[t].gets = 0 /\ pc[t] # "tier1_wait")
        /\ (pc[t] = "csv" /\ NothingCached(t)
              /\ (IsUnparsed(t) \/ hist[t].ans1 = NoResultAnswer))
           => hist[t].heads = 1

\* a resolution whose GET got no result and whose HEAD then gave the label
C2_Witness ==
    \E t \in Sessions :
        /\ pc[t] = "csv"
        /\ NothingCached(t)
        /\ hist[t].gets = 1
        /\ hist[t].ans1 = NoResultAnswer
        /\ hist[t].heads = 1
        /\ last_mod_et[t] = Stamp(2024, 12, 31, 22, 10)

\* C3: whatever the two remote calls do, a resolution returns a value, and
\* when tier 1 yields no result and tier 2 fails (network error, status
\* outside 200..299, header missing or unparseable) that value is "unknown".
C3_BothFailIsUnknown ==
    \A t \in Sessions :
        (pc[t] = "csv" /\ hist[t].heads = 1 /\ hist[t].fail2 = "failed")
        => last_mod_et[t] = unknown

\* C5: a tier's remote call for a resolved file URL is sent only if no
\* result of that tier for that URL was obtained less than 300 seconds
\* earlier.
C5_OneCallPerWindow ==
    [][\A t \in Sessions :
          /\ (pc[t] = "tier1" /\ pc'[t] = "tier1_wait")
             => ~\E d \in done :
                    d.tier = 1 /\ d.url = URLOf(t) /\ d.age < CommitTTL
          /\ (pc[t] \in {"tier1", "tier2"} /\ pc'[t] = "tier2_wait")
             => ~\E d \in done :
                    d.tier = 2 /\ d.url = URLOf(t) /\ d.age < HeadTTL]_vars

\* C8 as stated: a tier-1 result is returned from the cache only to a
\* resolution of the resolved file URL it was stored for.
C8_KeyedByURL ==
    \A t \in Sessions :
        hist[t].from1 # NoFrom => hist[t].from1.url = URLOf(t)

\* C8, amended: the entries of tier 2 are keyed by the resolved file URL,
\* those of tier 1 by the arguments (owner, repo, branch, base_path,
\* filename).  A tier-1 result is returned from the cache only to a
\* resolution with the arguments it was stored for, a tier-2 result only
\* to one of the same resolved file URL; a resolution that reaches tier 1
\* and is not answered from the cache sends its own commit-history request.
C8_KeyedByArguments ==
    \A t \in Sessions :
        /\ hist[t].from1 # NoFrom => hist[t].from1.args = ArgsOf(t)
        /\ hist[t].from2 # NoFrom => hist[t].from2.url = URLOf(t)
        /\ (pc[t] \in {"tier2", "tier2_wait", "csv"}
              /\ Tier1Applicable(parsed[t]) /\ hist[t].from1 = NoFrom)
           => hist[t].gets = 1

\* a tier-1 result stored for one URL and returned to a resolution of
\* another URL with the same arguments (another host)
C8_Witness ==
    \E t \in Sessions :
        /\ hist[t].from1 # NoFrom
        /\ hist[t].from1.url # URLOf(t)
        /\ hist[t].from1.args = ArgsOf(t)
        /\ hist[t].gets = 0

\* a freshness label: a formatted timestamp or "unknown"
IsLabel(l) == l = unknown \/ l \in {ExpectedET(u) : u \in Instants}

\* one panel per source, in the order of SOURCES, each with a label
PageComplete(t) ==
    /\ Len(tables[t]) = nshown
    /\ \A i \in 1..nshown :
          /\ tables[t][i].id = SOURCES[i].id
          /\ tables[t][i].file = SOURCES[i].file
          /\ tables[t][i].url = FileURL(RAW_BASE[t], SOURCES[i].file)
          /\ IsLabel(tables[t][i].last_modified)
          /\ tables[t][i].html \in {"table", "dataframe", "info", "error"}

Running(t) == pc[t] \notin {"idle", "done"}

\* C10: every page run that has begun completes, with one panel per
\* source in the order of SOURCES, each carrying a label that is a
\* formatted timestamp or "unknown", whatever fails on the way; and no
\* step of the run changes a panel that is already there.
C10_PageCompletes ==
    /\ [](\A t \in Sessions : pc[t] = "render" => PageComplete(t))
    /\ [][\A t \in Sessions :
            pc[t] \notin {"idle", "done", "render"}
            => /\ Len(tables'[t]) >= Len(tables[t])
               /\ SubSeq(tables'[t], 1, Len(tables[t])) = tables[t]]_vars
    /\ \A t \in Sessions : Running(t) ~> (pc[t] = "done")

\* a page of two panels, the first with "unknown" and the alert of a
\* failed load, the second with a timestamp and its table
C10_Witness ==
    \E t \in Sessions :
        /\ pc[t] = "render"
        /\ Len(tables[t]) = 2
        /\ tables[t][1].last_modified = unknown
        /\ tables[t][1].html = "error"
        /\ tables[t][2].last_modified # unknown
        /\ tables[t][2].html # "error"

====
